---- MODULE Spec2Model ----
(***************************************************************************)
(* A model of the local RAG chat plugin (src/src/main.ts): the lexical     *)
(* filter searchNotes, the Ollama helpers (ollamaEmbed, ollamaEmbedBatch,  *)
(* ollamaChat, safeParseOllamaJson, cosineSimilarity), the context         *)
(* assembler buildContextWithTokenLimit and the chat view's handleSubmit.  *)
(*                                                                         *)
(* A string is a sequence of characters; a character is a one-element      *)
(* atom written as a TLA+ string ("a", "B", "sp" for a space, "nl" for a   *)
(* line feed, "Idot" for U+0130 whose lower case is the two code units     *)
(* "i" and "dot").  Indices are 0-based wherever the source's are.         *)
(***************************************************************************)
EXTENDS Integers, Sequences, FiniteSets, TLC

VARIABLES
    \* RAGChatPlugin.searchNotes run on its own (SpecSearch)
    query, files, idx, results, keyIdx,
    \* RAGChatView.buildContextWithTokenLimit run on its own (SpecContext)
    rankedSnippets, maxContextTokens, context,
    \* the functions run on their own that have returned (SpecContext, SpecDecode)
    returned,
    \* safeParseOllamaJson and ollamaChat's extraction run on their own (SpecDecode)
    raw, embedded, decoded, answer,
    \* RAGChatView and its plugin (Spec): the single-flight flag, the children
    \* of chatContainer, every call of handleSubmit that got past its guards
    \* with its position and locals, the number of calls that returned at a
    \* guard, the requests sent to the service, and plugin.settings
    isProcessing, chat, calls, ignored, requests, settings

searchVars == <<query, files, idx, results, keyIdx>>
contextVars == <<rankedSnippets, maxContextTokens, context>>
decodeVars == <<raw, embedded, decoded, answer>>
viewVars == <<isProcessing, chat, calls, ignored, requests, settings>>
vars == <<searchVars, contextVars, decodeVars, returned, viewVars>>

----------------------------------------------------------------------------
(* Bounds of the model *)

MaxQueryLen == 2
MaxCoreLen == 2
MaxRanked == 2
MaxJunk == 1
MaxRawLen == 3
MaxCalls == 2
MaxIgnored == 1

----------------------------------------------------------------------------
(* Characters and strings *)

Lower == <<"a", "b", "c", "d", "e", "f", "g", "h", "i", "j", "k", "l", "m",
           "n", "o", "p", "q", "r", "s", "t", "u", "v", "w", "x", "y", "z">>
Upper == <<"A", "B", "C", "D", "E", "F", "G", "H", "I", "J", "K", "L", "M",
           "N", "O", "P", "Q", "R", "S", "T", "U", "V", "W", "X", "Y", "Z">>

Range(s) == {s[i] : i \in 1..Len(s)}

\* \w of a JavaScript regular expression: [A-Za-z0-9_]
WordChars == Range(Lower) \cup Range(Upper) \cup {"0", "1", "_"}
\* \s of a JavaScript regular expression (the members the model uses)
SpaceChars == {"sp", "nl"}
\* Every character of the model; the others are neither \w nor \s
Chars == WordChars \cup SpaceChars \cup {"Idot", "dot", "?", ":"}
NonWordChars == Chars \ WordChars

Min(S) == CHOOSE x \in S : \A y \in S : x <= y
Max2(a, b) == IF a >= b THEN a ELSE b
Min2(a, b) == IF a <= b THEN a ELSE b

\* String.prototype.toLowerCase on one character: a sequence, since the
\* lower case of U+0130 is two code units long
LowerOfChar(c) ==
    IF \E i \in 1..Len(Upper) : Upper[i] = c
    THEN <<Lower[CHOOSE i \in 1..Len(Upper) : Upper[i] = c]>>
    ELSE IF c = "Idot" THEN <<"i", "dot">> ELSE <<c>>

\* The concatenation of the pieces p[lo..hi], by halves
RECURSIVE Concat(_, _, _)
Concat(p, lo, hi) ==
    IF lo > hi THEN <<>>
    ELSE IF lo = hi THEN p[lo]
    ELSE LET mid == (lo + hi) \div 2
         IN  Concat(p, lo, mid) \o Concat(p, mid + 1, hi)

\* String.prototype.toLowerCase
toLowerCase(s) == Concat([i \in 1..Len(s) |-> LowerOfChar(s[i])], 1, Len(s))

\* String.prototype.indexOf(w): the 0-based index of the first occurrence, or -1
indexOf(s, w) ==
    LET hits == {i \in 1..(Len(s) - Len(w) + 1) : SubSeq(s, i, i + Len(w) - 1) = w}
    IN  IF hits = {} THEN -1 ELSE Min(hits) - 1

\* String.prototype.includes(w)
includes(s, w) == indexOf(s, w) # -1

\* String.prototype.slice(from, to): a negative index counts from the end,
\* and both ends are clamped to the string
slice(s, from, to) ==
    LET n == Len(s)
        f == IF from < 0 THEN Max2(n + from, 0) ELSE Min2(from, n)
        t == IF to < 0 THEN Max2(n + to, 0) ELSE Min2(to, n)
    IN  SubSeq(s, f + 1, t)

\* String.prototype.split(/\W+/) (seps = the characters that are not \w) and
\* split(/\s+/) (seps = \s): the pieces between the maximal runs of
\* separators, empty pieces at either end included
RECURSIVE SplitFrom(_, _, _, _, _)
SplitFrom(s, seps, i, cur, out) ==
    IF i > Len(s) THEN Append(out, cur)
    ELSE IF s[i] \notin seps THEN SplitFrom(s, seps, i + 1, Append(cur, s[i]), out)
    ELSE IF i > 1 /\ s[i - 1] \in seps THEN SplitFrom(s, seps, i + 1, cur, out)
    ELSE SplitFrom(s, seps, i + 1, <<>>, Append(out, cur))

split(s, seps) == SplitFrom(s, seps, 1, <<>>, <<>>)

\* String.prototype.replace(/\n+/g, " "): every maximal run of line feeds
\* becomes one space
collapseNewlines(s) ==
    Concat([i \in 1..Len(s) |->
                IF s[i] # "nl" THEN <<s[i]>>
                ELSE IF i < Len(s) /\ s[i + 1] = "nl" THEN <<>>
                ELSE <<"sp">>], 1, Len(s))

\* String.prototype.trim
RECURSIVE trimStart(_)
trimStart(s) ==
    IF s # <<>> /\ Head(s) \in SpaceChars THEN trimStart(Tail(s)) ELSE s

RECURSIVE trimEnd(_)
trimEnd(s) ==
    IF s # <<>> /\ s[Len(s)] \in SpaceChars THEN trimEnd(SubSeq(s, 1, Len(s) - 1)) ELSE s

trim(s) == trimEnd(trimStart(s))

\* Array.prototype.join(sep)
RECURSIVE join(_, _)
join(parts, sep) ==
    IF parts = <<>> THEN <<>>
    ELSE IF Len(parts) = 1 THEN parts[1]
    ELSE parts[1] \o sep \o join(Tail(parts), sep)

\* All sequences over S of length at most n
SeqsUpTo(S, n) == UNION {[1..k -> S] : k \in 0..n}

Pad(c, n) == [i \in 1..n |-> c]

----------------------------------------------------------------------------
(* RAGChatPlugin.searchNotes *)

STOP_WORDS == {
    <<"w", "h", "a", "t">>, <<"a", "r", "e">>, <<"t", "h", "e">>, <<"i", "s">>,
    <<"o", "f">>, <<"o", "n">>, <<"t", "o">>, <<"i", "n">>, <<"a", "n", "d">>,
    <<"o", "r">>, <<"a">>, <<"a", "n">>, <<"f", "o", "r">>,
    <<"t", "h", "i", "s">>, <<"t", "h", "a", "t">>, <<"w", "i", "t", "h">>}

SnippetBefore == 50
SnippetAfter == 150

\* lines 25-32, the fields the pipeline reads
DEFAULT_maxContextTokens == 700
DEFAULT_SETTINGS ==
    [llmModel |-> "", embeddingModel |-> "", maxContextTokens |-> DEFAULT_maxContextTokens,
     llmOptions |-> <<>>, embeddingOptions |-> <<>>]

\* lines 134-137: the query's lower-cased pieces between runs of non-word
\* characters, without the empty pieces and the stop words
RECURSIVE dropStopWords(_)
dropStopWords(words) ==
    IF words = <<>> THEN <<>>
    ELSE IF Head(words) # <<>> /\ Head(words) \notin STOP_WORDS
         THEN <<Head(words)>> \o dropStopWords(Tail(words))
         ELSE dropStopWords(Tail(words))

keywordsOf(q) == dropStopWords(split(toLowerCase(q), NonWordChars))

\* line 144: keywords.some((word) => contentLower.includes(word))
someIncluded(keywords, contentLower) ==
    \E k \in 1..Len(keywords) : includes(contentLower, keywords[k])

\* lines 145-149: the loop that keeps the lowest index found so far
RECURSIVE firstIdxLoop(_, _, _, _)
firstIdxLoop(keywords, contentLower, k, firstIdx) ==
    IF k > Len(keywords) THEN firstIdx
    ELSE LET i == indexOf(contentLower, keywords[k])
         IN  firstIdxLoop(keywords, contentLower, k + 1,
                 IF i # -1 /\ (firstIdx = -1 \/ i < firstIdx) THEN i ELSE firstIdx)

firstIdxOf(keywords, contentLower) == firstIdxLoop(keywords, contentLower, 1, -1)

\* line 151: Math.max(0, firstIdx - 50)
\* A variant of snippetStart without the clamp at 0
snippetStartNoClamp(firstIdx) == firstIdx - SnippetBefore
snippetStart(firstIdx) == Max2(0, firstIdx - SnippetBefore)

\* lines 150-152
snippetOf(content, firstIdx) ==
    collapseNewlines(slice(content, snippetStart(firstIdx), firstIdx + SnippetAfter))

\* lines 142-154, one turn of the loop over the files: the candidates the
\* file adds to results (none or one), with the indices the turn computed
searchFile(keywords, f, content) ==
    LET contentLower == toLowerCase(content)
    IN  IF someIncluded(keywords, contentLower)
        THEN LET firstIdx == firstIdxOf(keywords, contentLower)
             IN  <<[file |-> f, snippet |-> snippetOf(content, firstIdx),
                    firstIdx |-> firstIdx, start |-> snippetStart(firstIdx)]>>
        ELSE <<>>

\* What results.push stores: the file and the snippet
candidateOf(hit) == [file |-> hit.file, snippet |-> hit.snippet]

----------------------------------------------------------------------------
(* JSON text and values                                                    *)
(*                                                                         *)
(* A response body is a sequence of lexical tokens: the braces "{" "}",    *)
(* the brackets "[" "]", the comma, a key with its colon ("response:"),    *)
(* a number ("1"), a string literal ("s:hi", "s:" the empty one), "null",  *)
(* and "x", a piece of text that is no JSON.  Braces are single            *)
(* characters, found by indexOf and lastIndexOf as in the source; the      *)
(* string literals of the model hold no brace.                             *)
(* A value is a record of one shape, so that any two can be compared.      *)
(***************************************************************************)

JUndefined == [t |-> "undefined", n |-> 0, s |-> "", keys |-> <<>>, kids |-> <<>>]
JNull == [t |-> "null", n |-> 0, s |-> "", keys |-> <<>>, kids |-> <<>>]
JNum(n) == [t |-> "num", n |-> n, s |-> "", keys |-> <<>>, kids |-> <<>>]
JStr(s) == [t |-> "str", n |-> 0, s |-> s, keys |-> <<>>, kids |-> <<>>]
JArr(kids) == [t |-> "arr", n |-> 0, s |-> "", keys |-> <<>>, kids |-> kids]
JObj(keys, kids) == [t |-> "obj", n |-> 0, s |-> "", keys |-> keys, kids |-> kids]

KeyTokens == {"embedding:", "embeddings:", "message:", "content:", "response:", "error:"}
NumTokens == {"-1", "0", "1", "2", "3", "4"}
StrTokens == {"s:", "s:hi", "s:yo", "s:err"}

NumOfToken(tok) ==
    CASE tok = "-1" -> -1 [] tok = "0" -> 0 [] tok = "1" -> 1
      [] tok = "2" -> 2 [] tok = "3" -> 3 [] tok = "4" -> 4
TokenOfNum(n) ==
    CASE n = -1 -> "-1" [] n = 0 -> "0" [] n = 1 -> "1"
      [] n = 2 -> "2" [] n = 3 -> "3" [] n = 4 -> "4"
StrOfToken(tok) ==
    CASE tok = "s:" -> "" [] tok = "s:hi" -> "hi" [] tok = "s:yo" -> "yo"
      [] tok = "s:err" -> "err"
TokenOfStr(str) ==
    CASE str = "" -> "s:" [] str = "hi" -> "s:hi" [] str = "yo" -> "s:yo"
      [] str = "err" -> "s:err"
KeyOfToken(tok) ==
    CASE tok = "embedding:" -> "embedding" [] tok = "embeddings:" -> "embeddings"
      [] tok = "message:" -> "message" [] tok = "content:" -> "content"
      [] tok = "response:" -> "response" [] tok = "error:" -> "error"
TokenOfKey(key) ==
    CASE key = "embedding" -> "embedding:" [] key = "embeddings" -> "embeddings:"
      [] key = "message" -> "message:" [] key = "content" -> "content:"
      [] key = "response" -> "response:" [] key = "error" -> "error:"

\* JSON.stringify, without white space
RECURSIVE stringify(_)
stringify(v) ==
    CASE v.t = "num" -> <<TokenOfNum(v.n)>>
      [] v.t = "str" -> <<TokenOfStr(v.s)>>
      [] v.t = "null" -> <<"null">>
      [] v.t = "arr" ->
            <<"[">> \o join([i \in 1..Len(v.kids) |-> stringify(v.kids[i])], <<",">>)
                   \o <<"]">>
      [] v.t = "obj" ->
            <<"{">> \o join([i \in 1..Len(v.keys) |->
                                <<TokenOfKey(v.keys[i])>> \o stringify(v.kids[i])], <<",">>)
                   \o <<"}">>

\* What a parsing step gives: a value and the position after it, or a failure
Parsed(v, next) == [ok |-> TRUE, val |-> v, next |-> next]
ParseFailure == [ok |-> FALSE, val |-> JUndefined, next |-> 0]

\* An object with the member key: v set; a repeated key keeps its place and
\* takes the later value
setMember(keys, kids, key, v) ==
    IF \E i \in 1..Len(keys) : keys[i] = key
    THEN JObj(keys, [i \in 1..Len(keys) |-> IF keys[i] = key THEN v ELSE kids[i]])
    ELSE JObj(Append(keys, key), Append(kids, v))

\* JSON.parse's grammar by recursive descent: a value at position i of s
RECURSIVE parseValue(_, _), parseElements(_, _, _), parseMembers(_, _, _)
parseValue(s, i) ==
    IF i > Len(s) THEN ParseFailure
    ELSE CASE s[i] \in NumTokens -> Parsed(JNum(NumOfToken(s[i])), i + 1)
           [] s[i] \in StrTokens -> Parsed(JStr(StrOfToken(s[i])), i + 1)
           [] s[i] = "null" -> Parsed(JNull, i + 1)
           [] s[i] = "[" ->
                IF i + 1 <= Len(s) /\ s[i + 1] = "]" THEN Parsed(JArr(<<>>), i + 2)
                ELSE parseElements(s, i + 1, <<>>)
           [] s[i] = "{" ->
                IF i + 1 <= Len(s) /\ s[i + 1] = "}" THEN Parsed(JObj(<<>>, <<>>), i + 2)
                ELSE parseMembers(s, i + 1, JObj(<<>>, <<>>))
           [] OTHER -> ParseFailure

\* the elements of an array from position i on, after those in acc
parseElements(s, i, acc) ==
    LET v == parseValue(s, i)
    IN  IF ~v.ok \/ v.next > Len(s) THEN ParseFailure
        ELSE IF s[v.next] = "," THEN parseElements(s, v.next + 1, Append(acc, v.val))
        ELSE IF s[v.next] = "]" THEN Parsed(JArr(Append(acc, v.val)), v.next + 1)
        ELSE ParseFailure

\* the members of an object from position i on, after those in obj
parseMembers(s, i, obj) ==
    IF i > Len(s) \/ s[i] \notin KeyTokens THEN ParseFailure
    ELSE LET v == parseValue(s, i + 1)
             o == setMember(obj.keys, obj.kids, KeyOfToken(s[i]), v.val)
         IN  IF ~v.ok \/ v.next > Len(s) THEN ParseFailure
             ELSE IF s[v.next] = "," THEN parseMembers(s, v.next + 1, o)
             ELSE IF s[v.next] = "}" THEN Parsed(o, v.next + 1)
             ELSE ParseFailure

\* What a function that may throw gives: a value, or the error it throws
Returns(v) == [ok |-> TRUE, val |-> v, err |-> ""]
Throws(message) == [ok |-> FALSE, val |-> JUndefined, err |-> message]
Pending == [ok |-> FALSE, val |-> JUndefined, err |-> "pending"]

\* JSON.parse: the whole text must be one value
JSONparse(s) ==
    LET v == parseValue(s, 1)
    IN  IF v.ok /\ v.next = Len(s) + 1 THEN Returns(v.val)
        ELSE Throws("SyntaxError")

\* String.prototype.lastIndexOf(w)
Max(S) == CHOOSE x \in S : \A y \in S : x >= y
lastIndexOf(s, w) ==
    LET hits == {i \in 1..(Len(s) - Len(w) + 1) : SubSeq(s, i, i + Len(w) - 1) = w}
    IN  IF hits = {} THEN -1 ELSE Max(hits) - 1

\* line 231
\* A variant of lastBraceOf that takes the first "}"
lastBraceFirstFound(r) == indexOf(r, <<"}">>)
lastBraceOf(r) == lastIndexOf(r, <<"}">>)

\* lines 229-242
safeParseOllamaJson(r) ==
    LET firstBrace == indexOf(r, <<"{">>)
        lastBrace == lastBraceOf(r)
    IN  IF firstBrace = -1 \/ lastBrace = -1
        THEN Throws("Invalid response: JSON object not found.")
        ELSE LET parsed == JSONparse(slice(r, firstBrace, lastBrace + 1))
             IN  IF parsed.ok THEN parsed
                 ELSE Throws("Ollama response could not be parsed as JSON.")

\* data.key: the member's value, undefined when there is none (or when data
\* is no object)
get(data, key) ==
    IF data.t = "obj" /\ \E i \in 1..Len(data.keys) : data.keys[i] = key
    THEN data.kids[CHOOSE i \in 1..Len(data.keys) : data.keys[i] = key]
    ELSE JUndefined

\* data?.key
optGet(data, key) ==
    IF data.t \in {"undefined", "null"} THEN JUndefined ELSE get(data, key)

\* ToBoolean
truthy(v) ==
    CASE v.t \in {"undefined", "null"} -> FALSE
      [] v.t = "str" -> v.s # ""
      [] v.t = "num" -> v.n # 0
      [] OTHER -> TRUE

\* a || b
or(a, b) == IF truthy(a) THEN a ELSE b

\* line 219
\* A variant of chatAnswer that prefers response to message.content
chatAnswerResponseFirst(data) ==
    or(or(get(data, "response"), optGet(get(data, "message"), "content")),
       JStr("[no response]"))
chatAnswer(data) ==
    or(or(optGet(get(data, "message"), "content"), get(data, "response")),
       JStr("[no response]"))

\* lines 217-219: what ollamaChat gives for the response body r
ollamaChatResult(r) ==
    LET data == safeParseOllamaJson(r)
    IN  IF data.ok THEN Returns(chatAnswer(data.val)) ELSE data

\* The input of SpecDecode when the body is a JSON object between two
\* pieces of other text, and when it is any token sequence
Embedded(prefix, object, suffix) ==
    [is |-> TRUE, prefix |-> prefix, object |-> object, suffix |-> suffix]
NotEmbedded == [is |-> FALSE, prefix |-> <<>>, object |-> JUndefined, suffix |-> <<>>]

----------------------------------------------------------------------------
(* SpecSearch: searchNotes over a bounded family of queries and vaults *)

QueryChars == {"a", "b", "B", "sp"}
CoreChars == {"a", "b", "B", "nl"}
Queries == SeqsUpTo(QueryChars, MaxQueryLen)
\* A document: filler, a short core, filler; the filler before the core is
\* long enough (or not) for the 50-character lead, the filler after it for
\* the 150-character tail
Docs == {Pad(c, n) \o core \o Pad("z", m) :
            c \in {"z", "Idot"}, n \in {0, SnippetBefore - 1, SnippetBefore + 1},
            core \in SeqsUpTo(CoreChars, MaxCoreLen),
            m \in {0, SnippetAfter + 1}}
SecondDoc == <<"z", "nl", "nl", "B", "a">>

IdleSearch ==
    /\ query = <<>> /\ files = <<>> /\ idx = 0 /\ results = <<>> /\ keyIdx = <<>>
IdleContext ==
    /\ rankedSnippets = <<>> /\ maxContextTokens = 0 /\ context = <<>>
IdleDecode ==
    /\ raw = <<>> /\ embedded = NotEmbedded /\ decoded = Pending /\ answer = Pending
IdleView ==
    /\ isProcessing = FALSE /\ chat = <<>> /\ calls = <<>> /\ requests = <<>>
    /\ ignored = [blank |-> 0, query |-> 0]
    /\ settings = DEFAULT_SETTINGS

InitSearch ==
    /\ query \in Queries
    /\ files \in {<<d, SecondDoc>> : d \in Docs}
    /\ idx = 0
    /\ results = <<>>
    /\ keyIdx = <<>>
    /\ IdleContext /\ IdleDecode /\ IdleView /\ returned = {}

\* One turn of the loop at lines 141-155 (the read of the file succeeds)
SearchStep ==
    /\ idx < Len(files)
    /\ LET hit == searchFile(keywordsOf(query), idx + 1, files[idx + 1])
       IN  /\ results' = results \o [i \in 1..Len(hit) |-> candidateOf(hit[i])]
           /\ keyIdx' = keyIdx \o hit
    /\ idx' = idx + 1
    /\ UNCHANGED <<query, files, contextVars, decodeVars, returned, viewVars>>

NextSearch == SearchStep

SpecSearch == InitSearch /\ [][NextSearch]_vars

\* w occurs in s at the 0-based index i
OccursAt(w, s, i) ==
    /\ i + Len(w) <= Len(s)
    /\ \A j \in 1..Len(w) : s[i + j] = w[j]

\* The 0-based indices of the lower-cased document at which some keyword occurs
KeywordOccurrences(K, lowerD) ==
    {i \in 0..Len(lowerD) : \E k \in 1..Len(K) : OccursAt(K[k], lowerD, i)}

----------------------------------------------------------------------------
(* RAGChatView.approximateTokenCount and buildContextWithTokenLimit *)

\* TFile.basename of the vault's f-th file
basenameOf(f) == <<Upper[f]>>

\* line 373: text.trim().split(/\s+/).length
approximateTokenCount(text) == Len(split(trim(text), SpaceChars))

ChunkOverhead == 20

\* line 383
snippetTokens(r) == approximateTokenCount(r.snippet) + ChunkOverhead

\* line 384: the test that ends the loop
\* A variant of overBudget that also stops at a total equal to the budget
overBudgetOrEqual(tokenCount, cost, budget) == tokenCount + cost >= budget
overBudget(tokenCount, cost, budget) == tokenCount + cost > budget

\* line 386: `File: ${r.file.basename}\n${r.snippet}`
chunkOf(r) == <<"F", "i", "l", "e", ":", "sp">> \o basenameOf(r.file) \o <<"nl">> \o r.snippet

\* lines 382-387: the loop, from the i-th ranked snippet on
RECURSIVE contextLoop(_, _, _, _, _)
contextLoop(ranked, i, tokenCount, chunks, budget) ==
    IF i > Len(ranked) THEN chunks
    ELSE IF overBudget(tokenCount, snippetTokens(ranked[i]), budget) THEN chunks
    ELSE contextLoop(ranked, i + 1, tokenCount + snippetTokens(ranked[i]),
                     Append(chunks, chunkOf(ranked[i])), budget)

\* lines 376-389; budget is this.plugin.settings.maxContextTokens
buildContextWithTokenLimit(ranked, budget) ==
    join(contextLoop(ranked, 1, 0, <<>>, budget), <<"nl", "nl">>)

----------------------------------------------------------------------------
(* SpecContext: buildContextWithTokenLimit over bounded ranked sequences *)

ContextSnippets ==
    {<<>>, <<"b">>, <<"b", "sp", "b">>, <<"sp", "b", "nl", "nl", "b", "sp", "b", "sp">>}
RankedEntries == [file : 1..2, snippet : ContextSnippets, sim : {0}]
Budgets == 0..((MaxRanked + 1) * (ChunkOverhead + 3)) \cup {DEFAULT_maxContextTokens}

InitContext ==
    /\ rankedSnippets \in SeqsUpTo(RankedEntries, MaxRanked)
    /\ maxContextTokens \in Budgets
    /\ context = <<>>
    /\ returned = {}
    /\ IdleSearch /\ IdleDecode /\ IdleView

BuildContext ==
    /\ returned = {}
    /\ context' = buildContextWithTokenLimit(rankedSnippets, maxContextTokens)
    /\ returned' = {"buildContextWithTokenLimit"}
    /\ UNCHANGED <<rankedSnippets, maxContextTokens, searchVars, decodeVars, viewVars>>

NextContext == BuildContext

SpecContext == InitContext /\ [][NextContext]_vars

RECURSIVE SumCost(_, _)
SumCost(ranked, n) ==
    IF n = 0 THEN 0 ELSE SumCost(ranked, n - 1) + snippetTokens(ranked[n])

\* The context made of exactly the first n ranked candidates, in order
PrefixContext(ranked, n) ==
    join([i \in 1..n |-> chunkOf(ranked[i])], <<"nl", "nl">>)

\* C3: the context is made of exactly a prefix of the ranked sequence; the
\* prefix's cost (word count + 20 per candidate) is within the budget; if a
\* candidate is left out, the first one left out would have exceeded the
\* budget; and an empty sequence, or a first candidate too costly alone,
\* gives the empty string.
C3_GreedyPrefix ==
    "buildContextWithTokenLimit" \in returned =>
        /\ \E n \in 0..Len(rankedSnippets) :
              /\ context = PrefixContext(rankedSnippets, n)
              /\ SumCost(rankedSnippets, n) <= maxContextTokens
              /\ n < Len(rankedSnippets) =>
                    SumCost(rankedSnippets, n + 1) > maxContextTokens
        /\ (\/ rankedSnippets = <<>>
            \/ snippetTokens(rankedSnippets[1]) > maxContextTokens) => context = <<>>

\* A run that includes the first candidate, fills the budget exactly and
\* leaves the next candidate out
C3_Witness ==
    /\ "buildContextWithTokenLimit" \in returned
    /\ Len(rankedSnippets) >= 2
    /\ SumCost(rankedSnippets, 1) = maxContextTokens
    /\ context = PrefixContext(rankedSnippets, 1)

----------------------------------------------------------------------------
(* SpecDecode: safeParseOllamaJson and ollamaChat over bounded bodies *)

\* Text around a JSON object that is not JSON itself
JunkTokens == {"x", "{", "}"}
FreeTokens == {"{", "}", "x", "response:", "s:yo"}

\* A chat response's object: message absent ("none"), null, an object
\* without content, or one with content; response absent or a string
MessageShapes ==
    {<<"none", "">>, <<"null", "">>, <<"empty", "">>}
        \cup {<<"content", c>> : c \in {"", "hi"}}
ResponseShapes == {<<"none", "">>} \cup {<<"response", r>> : r \in {"", "yo"}}

messageMember(m) ==
    IF m[1] = "none" THEN <<>>
    ELSE IF m[1] = "null" THEN <<JNull>>
    ELSE IF m[1] = "empty" THEN <<JObj(<<>>, <<>>)>>
    ELSE <<JObj(<<"content">>, <<JStr(m[2])>>)>>

ChatObject(m, r) ==
    JObj((IF m[1] = "none" THEN <<>> ELSE <<"message">>)
            \o (IF r[1] = "none" THEN <<>> ELSE <<"response">>),
         messageMember(m) \o (IF r[1] = "none" THEN <<>> ELSE <<JStr(r[2])>>))

ChatObjects == {ChatObject(m, r) : m \in MessageShapes, r \in ResponseShapes}

InitDecode ==
    /\ \/ /\ embedded \in {Embedded(pre, o, suf) :
                                pre \in SeqsUpTo(JunkTokens, MaxJunk),
                                o \in ChatObjects,
                                suf \in SeqsUpTo(JunkTokens, MaxJunk)}
          /\ raw = embedded.prefix \o stringify(embedded.object) \o embedded.suffix
       \/ /\ embedded = NotEmbedded
          /\ raw \in SeqsUpTo(FreeTokens, MaxRawLen)
    /\ decoded = Pending
    /\ answer = Pending
    /\ returned = {}
    /\ IdleSearch /\ IdleContext /\ IdleView

\* safeParseOllamaJson(raw) returns or throws
ParseBody ==
    /\ "safeParseOllamaJson" \notin returned
    /\ decoded' = safeParseOllamaJson(raw)
    /\ returned' = returned \cup {"safeParseOllamaJson"}
    /\ UNCHANGED <<raw, embedded, answer, searchVars, contextVars, viewVars>>

\* ollamaChat, from the response body on (lines 217-219), returns or throws
ChatReturns ==
    /\ "ollamaChat" \notin returned
    /\ answer' = ollamaChatResult(raw)
    /\ returned' = returned \cup {"ollamaChat"}
    /\ UNCHANGED <<raw, embedded, decoded, searchVars, contextVars, viewVars>>

NextDecode == ParseBody \/ ChatReturns

SpecDecode == InitDecode /\ [][NextDecode]_vars

\* r holds a "{" somewhere before a "}"
HasBracePair(r) ==
    \E i, j \in 1..Len(r) : i < j /\ r[i] = "{" /\ r[j] = "}"

\* C6 as stated: a JSON object between any two pieces of non-JSON text is
\* decoded to exactly that object, and a body with no "{" ... "}" pair is an
\* error.
C6_AnyPrefixSuffix ==
    "safeParseOllamaJson" \in returned =>
        /\ embedded.is => decoded = Returns(embedded.object)
        /\ ~HasBracePair(raw) => ~decoded.ok

\* C6 as amended: a JSON object after text without "{" and before text
\* without "}" is decoded to exactly that object, and a body with no
\* "{" ... "}" pair is an error.
C6_BraceFreePrefixSuffix ==
    "safeParseOllamaJson" \in returned =>
        /\ (/\ embedded.is
            /\ "{" \notin Range(embedded.prefix)
            /\ "}" \notin Range(embedded.suffix)) => decoded = Returns(embedded.object)
        /\ ~HasBracePair(raw) => ~decoded.ok

\* A nested object recovered from between a "}" before it and a "{" after it
C6_Witness ==
    /\ "safeParseOllamaJson" \in returned
    /\ embedded.is
    /\ embedded.prefix = <<"}">> /\ embedded.suffix = <<"{">>
    /\ get(embedded.object, "message").t = "obj"
    /\ decoded = Returns(embedded.object)

\* The decoded response has the member message.content / response
ContentPresent(data) ==
    /\ get(data, "message").t = "obj"
    /\ "content" \in Range(get(data, "message").keys)
ResponsePresent(data) == "response" \in Range(data.keys)

NoResponse == JStr("[no response]")

\* C7 as stated: ollamaChat returns message.content whenever it is present,
\* otherwise response whenever it is present, and "[no response]" only when
\* neither is present.
C7_PresentFields ==
    (returned = {"safeParseOllamaJson", "ollamaChat"} /\ decoded.ok) =>
        LET data == decoded.val
            content == optGet(get(data, "message"), "content")
        IN  /\ answer.ok
            /\ ContentPresent(data) => answer.val = content
            /\ (~ContentPresent(data) /\ ResponsePresent(data)) =>
                    answer.val = get(data, "response")
            /\ answer.val = NoResponse =>
                    (~ContentPresent(data) /\ ~ResponsePresent(data))

\* C7 as amended: ollamaChat returns message.content whenever it is present
\* and not empty, otherwise response whenever it is present and not empty,
\* and "[no response]" exactly when neither is.
C7_NonEmptyFields ==
    (returned = {"safeParseOllamaJson", "ollamaChat"} /\ decoded.ok) =>
        LET data == decoded.val
            hasContent == ContentPresent(data) /\ get(get(data, "message"), "content").s # ""
            hasResponse == ResponsePresent(data) /\ get(data, "response").s # ""
        IN  /\ answer.ok
            /\ hasContent => answer.val = get(get(data, "message"), "content")
            /\ (~hasContent /\ hasResponse) => answer.val = get(data, "response")
            /\ (answer.val = NoResponse) <=> (~hasContent /\ ~hasResponse)

\* An empty message.content beside a response: the response is returned
C7_Witness ==
    /\ returned = {"safeParseOllamaJson", "ollamaChat"}
    /\ decoded.ok
    /\ ContentPresent(decoded.val)
    /\ ResponsePresent(decoded.val)
    /\ answer = Returns(JStr("yo"))

----------------------------------------------------------------------------
(* cosineSimilarity and the ranking of handleSubmit                        *)
(*                                                                         *)
(* An embedding is a JSON array of numbers.  A similarity is NaN or the    *)
(* exact quotient dot / (mag + 1e-8) of two integers: the embeddings of    *)
(* the model have integer magnitudes, on which Math.sqrt is exact.         *)
(***************************************************************************)

\* Math.sqrt on a perfect square
sqrt(n) == CHOOSE r \in 0..n : r * r = n

\* Array.prototype.reduce((sum, x) => sum + x, 0) over a tuple of integers
RECURSIVE sum(_)
sum(t) == IF t = <<>> THEN 0 ELSE Head(t) + sum(Tail(t))

NaN == [nan |-> TRUE, dot |-> 0, mag |-> 0]
Quotient(dot, mag) == [nan |-> FALSE, dot |-> dot, mag |-> mag]

\* a.reduce and b.reduce can be called: a and b are arrays
isArray(v) == v.t = "arr"

\* lines 222-227, for arrays a and b: b[i] is undefined past b's end, and
\* a number times undefined is NaN
cosineOfArrays(a, b) ==
    LET A == [i \in 1..Len(a.kids) |-> a.kids[i].n]
        B == [i \in 1..Len(b.kids) |-> b.kids[i].n]
        aMag == sqrt(sum([i \in 1..Len(A) |-> A[i] * A[i]]))
        bMag == sqrt(sum([i \in 1..Len(B) |-> B[i] * B[i]]))
    IN  IF Len(A) > Len(B) THEN NaN
        ELSE Quotient(sum([i \in 1..Len(A) |-> A[i] * B[i]]), aMag * bMag)

\* lines 222-227: a TypeError when a or b has no reduce
cosineSimilarity(a, b) ==
    IF isArray(a) /\ isArray(b) THEN Returns(cosineOfArrays(a, b))
    ELSE [ok |-> FALSE, val |-> NaN, err |-> "TypeError"]

sign(x) == IF x > 0 THEN 1 ELSE IF x < 0 THEN -1 ELSE 0

\* The sign of x - y for two similarities that are numbers.  With e = 1e-8,
\* x - y has the sign of x.dot * (y.mag + e) - y.dot * (x.mag + e), which is
\* that of x.dot * y.mag - y.dot * x.mag unless that is 0, and then that of
\* x.dot - y.dot
signOfDifference(x, y) ==
    LET cross == x.dot * y.mag - y.dot * x.mag
    IN  IF cross # 0 THEN sign(cross) ELSE sign(x.dot - y.dot)

\* line 418: (a, b) => b.sim - a.sim, as Array.prototype.sort reads it: a
\* NaN counts as +0
compareBySim(a, b) ==
    IF a.sim.nan \/ b.sim.nan THEN 0 ELSE signOfDifference(b.sim, a.sim)

\* The stable sort of a sequence under compareBySim, by insertion
RECURSIVE insertSorted(_, _), stableSort(_)
insertSorted(sorted, x) ==
    IF sorted = <<>> THEN <<x>>
    ELSE IF compareBySim(sorted[Len(sorted)], x) <= 0 THEN Append(sorted, x)
    ELSE Append(insertSorted(SubSeq(sorted, 1, Len(sorted) - 1), x), sorted[Len(sorted)])
stableSort(t) ==
    IF t = <<>> THEN <<>>
    ELSE insertSorted(stableSort(SubSeq(t, 1, Len(t) - 1)), t[Len(t)])

\* compareBySim is a consistent comparator on t: no similarity is NaN, or
\* all that are numbers are equal
consistentOn(t) ==
    \/ \A i \in 1..Len(t) : ~t[i].sim.nan
    \/ \A i, j \in 1..Len(t) :
          (~t[i].sim.nan /\ ~t[j].sim.nan) => signOfDifference(t[i].sim, t[j].sim) = 0

Reorderings(t) ==
    {[i \in 1..Len(t) |-> t[p[i]]] :
        p \in {q \in [1..Len(t) -> 1..Len(t)] : \A i, j \in 1..Len(t) : q[i] = q[j] => i = j}}

\* Array.prototype.sort: stable under a consistent comparator, and an
\* order the implementation chooses under any other
sortOutcomes(t) == IF consistentOn(t) THEN {stableSort(t)} ELSE Reorderings(t)

\* snippetEmbeddings[i], 0-based: undefined past the end
elementAt(arr, i) ==
    IF arr.t = "arr" /\ i + 1 <= Len(arr.kids) THEN arr.kids[i + 1] ELSE JUndefined

\* lines 413-417: the similarity of every result, or the first error thrown
similarities(results_, queryEmbedding, snippetEmbeddings) ==
    [i \in 1..Len(results_) |->
        cosineSimilarity(queryEmbedding, elementAt(snippetEmbeddings, i - 1))]

withSim(results_, sims) ==
    [i \in 1..Len(results_) |->
        [file |-> results_[i].file, snippet |-> results_[i].snippet, sim |-> sims[i].val]]

\* line 173: data.embedding || data.embeddings?.[0]
embeddingOf(data) ==
    or(get(data, "embedding"),
       IF get(data, "embeddings").t \in {"undefined", "null"} THEN JUndefined
       ELSE elementAt(get(data, "embeddings"), 0))

----------------------------------------------------------------------------
(* Spec: RAGChatView.handleSubmit, its calls interleaved with the events   *)
(* that resume them (a file read, a response of the service)               *)
(***************************************************************************)

\* The vault's markdown files, in getMarkdownFiles' order
Vault == << <<"b", "nl", "c">>, <<"z", "sp", "z">>, <<"z", "nl", "nl", "B", "sp", "b", "sp", "b">> >>

\* What the user may have typed when a submit event arrives
Inputs == { <<"sp">>, <<"a", "sp", "?">>, <<"Z", "sp", "b", "sp">>, <<"d">> }

Vec(t) == JArr([i \in 1..Len(t) |-> JNum(t[i])])
ErrorBody == stringify(JObj(<<"error">>, <<JStr("err")>>))

\* A response of the service: resp.ok and the body.  A 2xx response carries
\* any of the bodies, a non-2xx response the service's error object.
Responses(bodies) ==
    { [ok |-> TRUE, body |-> b] : b \in bodies } \cup { [ok |-> FALSE, body |-> ErrorBody] }

EmbedBodies ==
    { stringify(JObj(<<"embeddings">>, <<JArr(<<Vec(<<1, 0>>)>>)>>)),
      stringify(JObj(<<"embedding">>, <<Vec(<<1>>)>>)),
      ErrorBody,
      <<"x">> }

\* The bodies answering a batch of n texts: n embeddings of the query's
\* dimension (1,0 and 0,1 in turn; 0,1 first and 1,0 after it), n of
\* another dimension, n of which the first is of another dimension, none,
\* one too many, no array, an error object, and text that is no JSON
EmbeddingLists(n) ==
    { [i \in 1..n |-> IF i % 2 = 1 THEN <<1, 0>> ELSE <<0, 1>>],
      [i \in 1..n |-> IF i = 1 THEN <<0, 1>> ELSE <<1, 0>>] }
        \cup { [i \in 1..n |-> <<1>>],
               [i \in 1..n |-> IF i = 1 THEN <<1>> ELSE IF i = 2 THEN <<1, 0>> ELSE <<0, 1>>],
               <<>>,
               [i \in 1..(n + 1) |-> <<1, 0>>] }
BatchBodies(n) ==
    { stringify(JObj(<<"embeddings">>, <<JArr([i \in 1..Len(l) |-> Vec(l[i])])>>)) :
        l \in EmbeddingLists(n) }
    \cup { stringify(JObj(<<"embeddings">>, <<JStr("hi")>>)), ErrorBody, <<"x">> }

ChatBodies ==
    { stringify(ChatObject(<<"content", "hi">>, <<"none", "">>)),
      stringify(ChatObject(<<"content", "">>, <<"response", "yo">>)),
      stringify(ChatObject(<<"none", "">>, <<"none", "">>)),
      stringify(JObj(<<"response">>, <<JNum(1)>>)),
      ErrorBody,
      <<"x">> }

InFlight == {"searching", "embedQuery", "embedBatch", "chat"}

\* The configuration values a query uses: the models and the token budget
configOf(s) ==
    [llmModel |-> s.llmModel, embeddingModel |-> s.embeddingModel,
     maxContextTokens |-> s.maxContextTokens]
NoConfig == configOf(DEFAULT_SETTINGS)

\* A call of handleSubmit: where it is, and its locals.  badStatus records
\* that a response it consumed had resp.ok false (the code never reads it);
\* config records what plugin.settings held when the call began (the code
\* keeps no such copy).
NewCall(pc, q) ==
    [pc |-> pc, query |-> q, idx |-> 0, results |-> <<>>,
     queryEmbedding |-> JUndefined, snippetEmbeddings |-> JUndefined,
     ranked |-> <<>>, context |-> <<>>, badStatus |-> FALSE,
     outcome |-> "", error |-> "", config |-> NoConfig]

\* A call that has returned keeps no locals
Finished(call, outcome, error, bad) ==
    [NewCall("done", call.query) EXCEPT
        !.outcome = outcome, !.error = error, !.badStatus = bad]

\* A child of chatContainer: addMessage's role and text, and the call that
\* added it
Message(role, kind, c, text) == [role |-> role, kind |-> kind, call |-> c, text |-> text]

\* this.chatContainer.lastChild?.remove()
removeLast(children) ==
    IF children = <<>> THEN <<>> ELSE SubSeq(children, 1, Len(children) - 1)

\* line 392
\* A variant of busy without the guard
neverBusy(flag) == FALSE
busy(flag) == flag

\* line 402
\* A variant of noResults without the early return
neverEmpty(results_) == FALSE
noResults(results_) == Len(results_) = 0

\* lines 45-50: the names with "embed" in them are the embedding models
isEmbeddingModel(name) == name \in {"embed", "embed2"}
RECURSIVE filter(_, _)
filter(names, embed) ==
    IF names = <<>> THEN <<>>
    ELSE IF isEmbeddingModel(Head(names)) = embed
         THEN <<Head(names)>> \o filter(Tail(names), embed)
         ELSE filter(Tail(names), embed)

\* What /api/tags may list; fetchOllamaModels gives no model on a failure
\* (lines 56-59)
ModelLists == { <<"llm", "embed", "embed2">>, <<"llm", "embed2">>, <<>> }

\* options[0] || ""
firstOrEmpty(options) == IF options = <<>> THEN "" ELSE options[1]

\* lines 115-124: the settings after refreshModelOptions has fetched allModels
refreshed(s, allModels) ==
    LET llmModels == filter(allModels, FALSE)
        embeddingModels == filter(allModels, TRUE)
    IN  [s EXCEPT
            !.llmOptions = llmModels,
            !.embeddingOptions = embeddingModels,
            !.llmModel = IF @ \in Range(llmModels) THEN @ ELSE firstOrEmpty(llmModels),
            !.embeddingModel = IF @ \in Range(embeddingModels) THEN @
                               ELSE firstOrEmpty(embeddingModels)]

\* Steps of the settings tab and of the plugin leave the view alone
ViewFrame ==
    UNCHANGED <<searchVars, contextVars, decodeVars, returned,
                isProcessing, chat, calls, ignored, requests>>

\* lines 477-480: the user picks another embedding model in the dropdown
EmbeddingModelChanged(value) ==
    /\ Len(settings.embeddingOptions) # 0
    /\ value \in Range(settings.embeddingOptions)
    /\ value # settings.embeddingModel
    /\ settings' = [settings EXCEPT !.embeddingModel = value]
    /\ ViewFrame

\* lines 110-126: refreshModelOptions, from the answer of fetchOllamaModels on
RefreshModelOptions(allModels) ==
    /\ settings' = refreshed(settings, allModels)
    /\ settings' # settings
    /\ ViewFrame

Init ==
    /\ isProcessing = FALSE
    /\ chat = <<>>
    /\ calls = <<>>
    /\ ignored = [blank |-> 0, query |-> 0]
    /\ requests = <<>>
    /\ settings = refreshed(DEFAULT_SETTINGS, <<"llm", "embed", "embed2">>)
    /\ IdleSearch /\ IdleContext /\ IdleDecode /\ returned = {}

Frame == UNCHANGED <<searchVars, contextVars, decodeVars, returned, settings>>
\* Steps that resume a call leave the count of the ignored calls alone
Resumed == UNCHANGED ignored

\* lines 425-430: the catch block and the finally block, entered with
\* the given children of chatContainer
FailFrom(children, c, message, bad) ==
    /\ chat' = Append(removeLast(children), Message("rag", "error", c, <<message>>))
    /\ isProcessing' = FALSE
    /\ calls' = [calls EXCEPT ![c] = Finished(@, "error", message, bad)]
    /\ UNCHANGED requests

\* lines 425-430, entered before line 423 has run
Fail(c, message, bad) == FailFrom(chat, c, message, bad)

\* lines 391-401: a submit event (Enter, or the Send button) with the text
\* typed so far, up to the first await.  A call that returns at line 392 or
\* 394 is counted in ignored, under blank when the text was blank and under
\* query when it was not.
Submit(input) ==
    /\ LET c == Len(calls) + 1
           q == trim(input)
       IN  IF busy(isProcessing) \/ q = <<>>
           THEN /\ ignored.blank + ignored.query < MaxIgnored
                /\ ignored' = IF q = <<>> THEN [ignored EXCEPT !.blank = @ + 1]
                                           ELSE [ignored EXCEPT !.query = @ + 1]
                /\ UNCHANGED <<isProcessing, chat, calls, requests>>
           ELSE /\ Len(calls) < MaxCalls
                /\ chat' = Append(chat, Message("user", "query", c, q))
                /\ isProcessing' = TRUE
                /\ calls' = Append(calls, [NewCall("searching", q) EXCEPT
                                              !.config = configOf(settings)])
                /\ UNCHANGED <<ignored, requests>>
    /\ Frame

\* lines 142-156 and 402-409: the read of the next file resolves; after the
\* last file searchNotes returns and handleSubmit goes on to its next await
FileRead(c) ==
    /\ c \in 1..Len(calls)
    /\ calls[c].pc = "searching"
    /\ calls[c].idx < Len(Vault)
    /\ LET f == calls[c].idx + 1
           hit == searchFile(keywordsOf(calls[c].query), f, Vault[f])
           found == calls[c].results \o [i \in 1..Len(hit) |-> candidateOf(hit[i])]
       IN  IF f < Len(Vault)
           THEN /\ calls' = [calls EXCEPT ![c].idx = f, ![c].results = found]
                /\ UNCHANGED <<isProcessing, chat, requests>>
           ELSE IF noResults(found)
           THEN /\ chat' = Append(chat, Message("rag", "nomatch", c,
                                                <<"no matching notes found.">>))
                /\ isProcessing' = FALSE
                /\ calls' = [calls EXCEPT ![c] = Finished(@, "nomatch", "", FALSE)]
                /\ UNCHANGED requests
           ELSE /\ chat' = Append(chat, Message("rag", "loading", c,
                                                <<"generating response...">>))
                /\ requests' = Append(requests,
                        [call |-> c, api |-> "embed", model |-> settings.embeddingModel])
                /\ calls' = [calls EXCEPT ![c].idx = f, ![c].results = found,
                                          ![c].pc = "embedQuery"]
                /\ UNCHANGED isProcessing
    /\ Frame /\ Resumed

\* line 142: the read of the next file rejects
FileReadFails(c) ==
    /\ c \in 1..Len(calls)
    /\ calls[c].pc = "searching"
    /\ calls[c].idx < Len(Vault)
    /\ Fail(c, "read failed", FALSE)
    /\ Frame /\ Resumed

\* lines 163, 180, 201: fetch rejects (the service cannot be reached)
FetchFails(c) ==
    /\ c \in 1..Len(calls)
    /\ calls[c].pc \in {"embedQuery", "embedBatch", "chat"}
    /\ Fail(c, "Failed to fetch", calls[c].badStatus)
    /\ Frame /\ Resumed

\* lines 171-173 and 410-411: the response to ollamaEmbed's request
EmbedResponds(c, resp) ==
    /\ c \in 1..Len(calls)
    /\ calls[c].pc = "embedQuery"
    /\ LET data == safeParseOllamaJson(resp.body)
           bad == calls[c].badStatus \/ ~resp.ok
       IN  IF ~data.ok THEN Fail(c, data.err, bad)
           ELSE /\ calls' = [calls EXCEPT ![c].queryEmbedding = embeddingOf(data.val),
                                          ![c].badStatus = bad,
                                          ![c].pc = "embedBatch"]
                /\ requests' = Append(requests,
                        [call |-> c, api |-> "embedBatch", model |-> settings.embeddingModel])
                /\ UNCHANGED <<isProcessing, chat>>
    /\ Frame /\ Resumed

\* lines 188-193 and 413-421: the response to ollamaEmbedBatch's request,
\* the ranking, the context and ollamaChat's request
BatchResponds(c, resp) ==
    /\ c \in 1..Len(calls)
    /\ calls[c].pc = "embedBatch"
    /\ LET data == safeParseOllamaJson(resp.body)
           bad == calls[c].badStatus \/ ~resp.ok
           embeddings == get(data.val, "embeddings")
           sims == similarities(calls[c].results, calls[c].queryEmbedding, embeddings)
       IN  IF ~data.ok THEN Fail(c, data.err, bad)
           ELSE IF ~isArray(embeddings)
           THEN Fail(c, "Expected 'embeddings' to be an array.", bad)
           ELSE IF \E i \in 1..Len(sims) : ~sims[i].ok THEN Fail(c, "TypeError", bad)
           ELSE /\ \E ranked \in sortOutcomes(withSim(calls[c].results, sims)) :
                     calls' = [calls EXCEPT
                        ![c].snippetEmbeddings = embeddings,
                        ![c].ranked = ranked,
                        ![c].context =
                            buildContextWithTokenLimit(ranked, settings.maxContextTokens),
                        ![c].badStatus = bad,
                        ![c].pc = "chat"]
                /\ requests' = Append(requests,
                        [call |-> c, api |-> "chat", model |-> settings.llmModel])
                /\ UNCHANGED <<isProcessing, chat>>
    /\ Frame /\ Resumed

\* lines 217-219 and 423-424: the response to ollamaChat's request.  An
\* answer that is no string makes answer.trim() throw at line 424, after
\* line 423 has removed the last child.
ChatResponds(c, resp) ==
    /\ c \in 1..Len(calls)
    /\ calls[c].pc = "chat"
    /\ LET reply == ollamaChatResult(resp.body)
           bad == calls[c].badStatus \/ ~resp.ok
       IN  IF ~reply.ok THEN Fail(c, reply.err, bad)
           ELSE IF reply.val.t # "str"
           THEN FailFrom(removeLast(chat), c, "TypeError", bad)
           ELSE /\ chat' = Append(removeLast(chat),
                                  Message("rag", "answer", c, <<reply.val.s>>))
                /\ isProcessing' = FALSE
                /\ calls' = [calls EXCEPT ![c] = Finished(@, "answer", "", bad)]
                /\ UNCHANGED requests
    /\ Frame /\ Resumed

Next ==
    \/ \E input \in Inputs : Submit(input)
    \/ \E c \in 1..Len(calls) : FileRead(c)
    \/ \E c \in 1..Len(calls) : FileReadFails(c)
    \/ \E c \in 1..Len(calls) : FetchFails(c)
    \/ \E c \in 1..Len(calls), resp \in Responses(EmbedBodies) : EmbedResponds(c, resp)
    \/ \E c \in 1..Len(calls) :
          \E resp \in Responses(BatchBodies(Len(calls[c].results))) : BatchResponds(c, resp)
    \/ \E c \in 1..Len(calls), resp \in Responses(ChatBodies) : ChatResponds(c, resp)

Spec == Init /\ [][Next]_vars

(* SpecSettings: the view beside the settings tab.  The service answers   *)
(* every request well; the settings change at any moment.                 *)

SettingsInputs == { <<"Z", "sp", "b", "sp">> }
EmbedAnswer == [ok |-> TRUE, body |-> stringify(JObj(<<"embeddings">>, <<JArr(<<Vec(<<1, 0>>)>>)>>))]
BatchAnswer(n) ==
    [ok |-> TRUE,
     body |-> stringify(JObj(<<"embeddings">>,
                <<JArr([i \in 1..n |-> Vec(IF i % 2 = 1 THEN <<1, 0>> ELSE <<0, 1>>)])>>))]
ChatAnswer == [ok |-> TRUE, body |-> stringify(ChatObject(<<"content", "hi">>, <<"none", "">>))]

NextSettings ==
    \/ \E input \in SettingsInputs : Submit(input)
    \/ \E c \in 1..Len(calls) : FileRead(c)
    \/ \E c \in 1..Len(calls) : EmbedResponds(c, EmbedAnswer)
    \/ \E c \in 1..Len(calls) : BatchResponds(c, BatchAnswer(Len(calls[c].results)))
    \/ \E c \in 1..Len(calls) : ChatResponds(c, ChatAnswer)
    \/ \E value \in {"embed", "embed2"} : EmbeddingModelChanged(value)
    \/ \E allModels \in ModelLists : RefreshModelOptions(allModels)

SpecSettings == Init /\ [][NextSettings]_vars

\* The calls of handleSubmit that are past the guards and have not returned
Running == {c \in 1..Len(calls) : calls[c].pc \in InFlight}
\* The calls that got past the guards
Accepted == 1..Len(calls)

\* C2: a call whose query leaves no keyword (all its tokens are stop words)
\* finds no candidate, sends no request to the service at any time, and,
\* once searchNotes has returned, has ended with the message "no matching
\* notes found.".
C2_StopWordsOnly ==
    \A c \in Accepted :
        keywordsOf(calls[c].query) = <<>> =>
            /\ calls[c].results = <<>>
            /\ calls[c].pc \in {"searching", "done"}
            /\ \A i \in 1..Len(requests) : requests[i].call # c
            /\ (calls[c].pc = "done" /\ calls[c].error # "read failed") =>
                  /\ calls[c].outcome = "nomatch"
                  /\ \E i \in 1..Len(chat) :
                        chat[i] = Message("rag", "nomatch", c, <<"no matching notes found.">>)

\* A query of stop words has been answered "no matching notes found." and
\* no request was ever sent
C2_Witness ==
    /\ requests = <<>>
    /\ \E c \in Accepted :
          /\ calls[c].query = <<"a", "sp", "?">>
          /\ calls[c].outcome = "nomatch"

\* The calls whose batch of embeddings has been returned by ollamaEmbedBatch
\* and used for the ranking
Ranked == {c \in 1..Len(calls) : calls[c].pc = "chat"}

\* C4: the embeddings that ollamaEmbedBatch returns, and that handleSubmit
\* zips against the candidates, are as many as the texts it was given; a
\* response whose "embeddings" has another length is an error.
C4_BatchSameLength ==
    \A c \in Ranked :
        /\ isArray(calls[c].snippetEmbeddings)
        /\ Len(calls[c].snippetEmbeddings.kids) = Len(calls[c].results)

\* x >= y for two similarities; false when either is NaN
AtLeast(x, y) == ~x.nan /\ ~y.nan /\ signOfDifference(x, y) >= 0
\* The place of a ranked entry's file in the sequence searchNotes returned
placeOf(results_, file) == CHOOSE i \in 1..Len(results_) : results_[i].file = file

\* C5: the ranked sequence is a permutation of the candidates, similarity
\* does not increase from first to last, and candidates of equal similarity
\* keep the order searchNotes returned them in.
C5_RankedDescendingStable ==
    \A c \in Ranked :
        LET ranked == calls[c].ranked
            results_ == calls[c].results
        IN  /\ Len(ranked) = Len(results_)
            /\ \A i \in 1..Len(results_) : \E j \in 1..Len(ranked) :
                  ranked[j].file = results_[i].file /\ ranked[j].snippet = results_[i].snippet
            /\ \A i, j \in 1..Len(ranked) : i < j =>
                  /\ AtLeast(ranked[i].sim, ranked[j].sim)
                  /\ signOfDifference(ranked[i].sim, ranked[j].sim) = 0 =>
                        placeOf(results_, ranked[i].file) < placeOf(results_, ranked[j].file)

\* C8: no ranking uses a similarity of two embeddings of different lengths:
\* every snippet embedding behind a ranking has the query embedding's length.
C8_SameDimension ==
    \A c \in Ranked :
        \A i \in 1..Len(calls[c].results) :
            Len(elementAt(calls[c].snippetEmbeddings, i - 1).kids)
                = Len(calls[c].queryEmbedding.kids)

\* C9: a call that has received a non-2xx response from the service has
\* ended as a failure: it runs no later stage and shows no answer.
C9_BadStatusAborts ==
    \A c \in 1..Len(calls) :
        calls[c].badStatus => (calls[c].pc = "done" /\ calls[c].outcome = "error")

\* The model a request of a call would name under the configuration cfg
modelFor(api, cfg) == IF api = "chat" THEN cfg.llmModel ELSE cfg.embeddingModel

\* C11: every stage of a call uses the configuration that was in effect
\* when the query was submitted, whatever the settings tab or
\* refreshModelOptions does meanwhile: every request of a running call names
\* the model configured at submission, and the embed-query and embed-batch
\* requests of one call name the same embedding model.
C11_ConfigSnapshot ==
    /\ \A c \in Running : \A i \in 1..Len(requests) :
          requests[i].call = c => requests[i].model = modelFor(requests[i].api, calls[c].config)
    /\ \A i, j \in 1..Len(requests) :
          (/\ requests[i].call = requests[j].call
           /\ requests[i].api = "embed"
           /\ requests[j].api = "embedBatch") => requests[i].model = requests[j].model

\* The calls that have ended
Ended == {c \in 1..Len(calls) : calls[c].pc = "done"}

\* C12: when a call has ended, by an answer, no match or a failure at any
\* stage, the user's message it added is still in the chat log and is
\* followed by exactly one message of the call, its result or its error;
\* no other message of the call remains.
C12_UserMessageKept ==
    \A c \in Ended :
        /\ \E i \in 1..(Len(chat) - 1) :
              /\ chat[i] = Message("user", "query", c, calls[c].query)
              /\ chat[i + 1].call = c
              /\ chat[i + 1].role = "rag"
              /\ chat[i + 1].kind \in {"answer", "nomatch", "error"}
        /\ Cardinality({i \in 1..Len(chat) : chat[i].call = c}) = 2

\* isProcessing is true exactly while a call is running, and at most one is
SingleFlight ==
    /\ isProcessing <=> (Running # {})
    /\ Cardinality(Running) <= 1

\* A submit event while a call is running is ignored: no message, no
\* request, no new call.  One while none is running is ignored only when
\* its text is blank, and is otherwise accepted: its message is added and
\* its call runs.
SubmitStep ==
    /\ ~(isProcessing /\ Len(calls') > Len(calls))
    /\ ignored' # ignored =>
          /\ UNCHANGED <<isProcessing, chat, calls, requests>>
          /\ ~isProcessing => ignored'.query = ignored.query
    /\ Len(calls') > Len(calls) =>
          LET c == Len(calls')
          IN  /\ calls' = Append(calls, calls'[c])
              /\ calls'[c].pc = "searching"
              /\ chat' = Append(chat, Message("user", "query", c, calls'[c].query))
              /\ isProcessing'
              /\ requests' = requests

\* C10: under any interleaving of submit events with the steps of the
\* pipeline, isProcessing is true exactly while one call of handleSubmit is
\* past its guard and has not finished; at most one call runs at a time; a
\* submission made meanwhile adds no message and sends no request; and a
\* submission made after the call has ended is accepted.
C10_SingleFlight == [](SingleFlight) /\ [][SubmitStep]_vars

\* A call was ignored while another ran, that one has ended, and the next
\* submission has been accepted
C10_Witness ==
    /\ ignored.query >= 1
    /\ Len(calls) = 2
    /\ calls[1].pc = "done"
    /\ calls[2].pc \in InFlight
    /\ isProcessing

====
